---- MODULE Spec2Model ----
(***************************************************************************)
(* Serialized cycle count: the reconciliation logic of the two React       *)
(* components of the repository.                                           *)
(*                                                                         *)
(*   "part_000"          src/unnamed/part_000 (instrument + serial number, *)
(*                       camera, manual entry, drag-and-drop)              *)
(*   "BarcodeReconciler" src/barcode-reconciler-app/src/                   *)
(*                       BarcodeReconciler.jsx (instrument number only)    *)
(*                                                                         *)
(* A JavaScript string is a sequence of one-character strings, so that     *)
(* trim, toUpperCase, split and the template literal that joins the two    *)
(* fields of a row are computed character by character.                    *)
(***************************************************************************)
EXTENDS Integers, Sequences, FiniteSets, TLC

VARIABLES
    app,            \* which component is mounted
    masterList,     \* useState([]) : the catalog, a sequence of strings
    scannedData,    \* useState({}) : the tally, entries in insertion order
    pending,        \* setScannedData updaters queued until the next render
    parses,         \* Papa.parse calls in flight (their rows are read when
                    \* a call completes: nothing looks at them before)
    isUsingCamera,  \* useState(false)
    isManualEntry,  \* useState(false)
    cameraList,     \* masterList closed over by the registered onScanSuccess
    lastNumber,     \* the argument of the last processNumber call
    result,         \* what the last processNumber call returned
    uploads,        \* Papa.parse calls started so far
    notice,         \* the last alert of parseMasterList
    resultsData     \* results.data of the parse SpecBuild follows (Spec
                    \* draws the rows when a parse completes, keeps none)

vars == <<app, masterList, scannedData, pending, parses, isUsingCamera,
          isManualEntry, cameraList, lastNumber, result, uploads, notice,
          resultsData>>

(***************************************************************************)
(* Bounds                                                                  *)
(***************************************************************************)
MaxRows == 2        \* rows of an uploaded file
MaxScans == 2       \* scans recorded in the tally (queued ones included)
MaxUploads == 2     \* files handed to Papa.parse in one session

(***************************************************************************)
(* Strings                                                                 *)
(***************************************************************************)
EmptyStr == <<>>
Space == " "
Comma == ","

\* String.prototype.toUpperCase, one character
UpperChar(c) ==
    CASE c = "a" -> "A"
      [] c = "b" -> "B"
      [] c = "s" -> "S"
      [] c = "x" -> "X"
      [] OTHER -> c

\* String.prototype.toUpperCase
ToUpperCase(s) == [i \in 1..Len(s) |-> UpperChar(s[i])]

RECURSIVE TrimStart(_)
TrimStart(s) ==
    IF s # <<>> /\ Head(s) = Space THEN TrimStart(Tail(s)) ELSE s

RECURSIVE TrimEnd(_)
TrimEnd(s) ==
    IF s # <<>> /\ s[Len(s)] = Space THEN TrimEnd(SubSeq(s, 1, Len(s) - 1)) ELSE s

\* String.prototype.trim
Trim(s) == TrimEnd(TrimStart(s))

\* String.prototype.split(','): "" gives [""], "A," gives ["A", ""]
RECURSIVE SplitFrom(_, _)
SplitFrom(s, cur) ==
    IF s = <<>> THEN <<cur>>
    ELSE IF Head(s) = Comma THEN <<cur>> \o SplitFrom(Tail(s), <<>>)
    ELSE SplitFrom(Tail(s), Append(cur, Head(s)))

Split(s) == SplitFrom(s, <<>>)

\* array[i] in JavaScript, zero-based: undefined past the end
Undefined == <<"undefined">>
At(arr, i) == IF i + 1 <= Len(arr) THEN arr[i + 1] ELSE Undefined

\* [...new Set(seq)]: first occurrences, in order
RECURSIVE Dedupe(_)
Dedupe(seq) ==
    IF seq = <<>> THEN <<>>
    ELSE LET init == Dedupe(SubSeq(seq, 1, Len(seq) - 1))
             last == seq[Len(seq)]
         IN IF \E i \in 1..Len(init) : init[i] = last THEN init
            ELSE Append(init, last)

\* Array.prototype.includes
Includes(seq, x) == \E i \in 1..Len(seq) : seq[i] = x

(***************************************************************************)
(* Inputs: what Papa.parse delivers and what the operator scans or types   *)
(***************************************************************************)
\* rows of results.data (header: false): arrays of string fields
Rows ==
    { <<>>,
      << <<"S">> >>,
      << <<" ", "A", " ">>, <<"S">> >>,
      << <<"A">>, <<"B">> >>,
      << <<" ">>, <<"S">> >>,
      << <<"A">>, <<"B">>, <<"S">> >> }

\* identifiers delivered by a scanner, the manual form or the camera
ScanInputs ==
    { <<>>, <<" ">>, <<"A">>, <<" ", "a", " ">>, <<"S">>, <<"s">>, <<"X">> }

(***************************************************************************)
(* parseMasterList                                                         *)
(***************************************************************************)
Null == <<"null">>

\* the .map callback of part_000: `${row[0].trim()},${row[1].trim()}`
RowToItem(row) ==
    IF Len(row) >= 2 THEN Trim(row[1]) \o <<Comma>> \o Trim(row[2])
    ELSE IF Len(row) = 1 THEN Trim(row[1]) \o <<Comma>>
    ELSE Null

\* the .filter callback of part_000: item && item.split(',')[0]
KeepItem(item) == item # Null /\ item # EmptyStr /\ At(Split(item), 0) # EmptyStr

\* processedData of part_000
ProcessedData(rows) ==
    SelectSeq([i \in 1..Len(rows) |-> RowToItem(rows[i])], KeepItem)

\* the value part_000 passes to setMasterList
BuildMasterList(rows) == Dedupe(ProcessedData(rows))

\* Array.prototype.flat, one level
RECURSIVE Flat(_)
Flat(rows) == IF rows = <<>> THEN <<>> ELSE Head(rows) \o Flat(Tail(rows))

NonEmpty(item) == item # EmptyStr

\* numbers of BarcodeReconciler.jsx
LegacyNumbers(rows) ==
    SelectSeq([i \in 1..Len(Flat(rows)) |-> Trim(Flat(rows)[i])], NonEmpty)

\* the value BarcodeReconciler.jsx passes to setMasterList
LegacyBuildMasterList(rows) == Dedupe(LegacyNumbers(rows))

\* results.data of an uploaded file
Files == UNION { [1..n -> Rows] : n \in 0..MaxRows }

\* new Set(seq).size
SetSize(seq) == Cardinality({ seq[i] : i \in 1..Len(seq) })

\* the alerts of parseMasterList: none yet, the count of the loaded master
\* list, the error callback's message
NoNotice == <<"none">>
Loaded(size) == <<"loaded", size>>
ErrorNotice == <<"error">>

\* what the complete callback of part_000 does with results.data: the value
\* it passes to setMasterList and the count it alerts
Load(rows) ==
    [list |-> BuildMasterList(rows), size |-> SetSize(ProcessedData(rows))]

\* the same for BarcodeReconciler.jsx
LegacyLoad(rows) ==
    [list |-> LegacyBuildMasterList(rows), size |-> SetSize(LegacyNumbers(rows))]

\* the outcomes the complete callbacks can have
Loads == { Load(file) : file \in Files }
LegacyLoads == { LegacyLoad(file) : file \in Files }

(***************************************************************************)
(* The catalog entry behind a stored string                                *)
(***************************************************************************)
\* match.split(',')[0].trim(): the key processNumber tallies under
InstrumentNumber(item) == Trim(At(Split(item), 0))

\* the second element of item.split(','), as processNumber destructures it
SerialNumber(item) == At(Split(item), 1)

\* the find callback with the serial number comparison left out
MatchesInstrumentOnly(item, normalizedNumber) ==
    normalizedNumber = ToUpperCase(Trim(At(Split(item), 0)))

\* the callback of masterList.find in processNumber
Matches(item, normalizedNumber) ==
    LET parts == Split(item)
        instrNum == ToUpperCase(Trim(At(parts, 0)))
        serial == At(parts, 1)
        serialNum == IF serial = Undefined THEN Undefined
                     ELSE ToUpperCase(Trim(serial))
    IN normalizedNumber = instrNum \/ normalizedNumber = serialNum

\* a search that would return the last match
FindLast(list, normalizedNumber) ==
    LET hits == { i \in 1..Len(list) : Matches(list[i], normalizedNumber) }
    IN IF hits = {} THEN 0
       ELSE CHOOSE i \in hits : \A j \in hits : i >= j

\* Array.prototype.find: the index of the first match, 0 when there is none
Find(list, normalizedNumber) ==
    LET hits == { i \in 1..Len(list) : Matches(list[i], normalizedNumber) }
    IN IF hits = {} THEN 0
       ELSE CHOOSE i \in hits : \A j \in hits : i <= j

\* number.trim().toUpperCase()
Normalize(number) == ToUpperCase(Trim(number))

\* processNumber against the masterList its closure holds: the value it
\* returns and the keys it hands to setScannedData
ProcessNumber(list, number) ==
    IF number = EmptyStr THEN [ret |-> "undefined", keys |-> <<>>]
    ELSE LET m == Find(list, Normalize(number))
         IN IF m # 0
            THEN [ret |-> "true", keys |-> <<InstrumentNumber(list[m])>>]
            ELSE [ret |-> "false", keys |-> <<>>]

(***************************************************************************)
(* The tally                                                               *)
(***************************************************************************)
HasKey(data, k) == \E i \in 1..Len(data) : data[i].key = k

\* data[k] || 0
Count(data, k) ==
    IF HasKey(data, k)
    THEN data[CHOOSE i \in 1..Len(data) : data[i].key = k].count
    ELSE 0

\* an update computed from the rendered scannedData instead of prev:
\* setScannedData({...scannedData, [k]: (scannedData[k] || 0) + 1})
StaleUpdater(prev, k) ==
    IF HasKey(scannedData, k)
    THEN [i \in 1..Len(scannedData) |->
            IF scannedData[i].key = k
            THEN [key |-> k, count |-> scannedData[i].count + 1]
            ELSE scannedData[i]]
    ELSE Append(scannedData, [key |-> k, count |-> 1])

\* prev => ({...prev, [k]: (prev[k] || 0) + 1})
Updater(prev, k) ==
    IF HasKey(prev, k)
    THEN [i \in 1..Len(prev) |->
            IF prev[i].key = k THEN [key |-> k, count |-> prev[i].count + 1]
            ELSE prev[i]]
    ELSE Append(prev, [key |-> k, count |-> 1])

\* React applies the queued updaters in order at the next render
RECURSIVE Flush(_, _)
Flush(data, queue) ==
    IF queue = <<>> THEN data ELSE Flush(Updater(data, Head(queue)), Tail(queue))

\* the reduce counting entries instead of adding their counts
TotalScannedEntries(data) == Len(data)

\* Object.values(scannedData).reduce((sum, count) => sum + count, 0)
RECURSIVE TotalScanned(_)
TotalScanned(data) ==
    IF data = <<>> THEN 0 ELSE Head(data).count + TotalScanned(Tail(data))

(***************************************************************************)
(* report (useMemo)                                                        *)
(***************************************************************************)
\* masterList.forEach of part_000: the items pushed to missing
Missing(list, data) ==
    LET IsMissing(item) == Count(data, item) = 0 IN SelectSeq(list, IsMissing)

\* masterList.forEach of part_000: the items pushed to matched
Matched(list, data) ==
    LET IsMatched(item) == Count(data, item) = 1 IN SelectSeq(list, IsMatched)

\* masterList.forEach of part_000: short[item] = actualCount
Short(list, data) ==
    LET IsShort(item) == Count(data, item) > 1
        items == SelectSeq(list, IsShort)
    IN [i \in 1..Len(items) |-> [key |-> items[i], count |-> Count(data, items[i])]]

\* Object.keys(scannedData).forEach of part_000: the entries pushed to excess
Excess(list, data) ==
    LET NotExpected(e) == ~Includes(list, e.key)
        entries == SelectSeq(data, NotExpected)
    IN [i \in 1..Len(entries) |-> [number |-> entries[i].key, count |-> entries[i].count]]

\* the report of part_000
Report(list, data) ==
    [totalExpected |-> Len(list),
     totalScanned |-> TotalScanned(data),
     missing |-> Missing(list, data),
     excess |-> Excess(list, data),
     short |-> Short(list, data),
     matched |-> Matched(list, data)]

\* the report with matched taking every scanned item (=== 1 written >= 1)
LegacyReportLooseMatched(list, data) ==
    LET IsMissing(item) == Count(data, item) = 0
        IsMatched(item) == Count(data, item) >= 1
        IsShort(item) == Count(data, item) > 1
        NotExpected(e) == ~Includes(list, e.key)
        short == SelectSeq(list, IsShort)
        entries == SelectSeq(data, NotExpected)
    IN [totalExpected |-> Len(list),
        totalScanned |-> TotalScanned(data),
        missing |-> SelectSeq(list, IsMissing),
        excess |-> [i \in 1..Len(entries) |->
                      [number |-> entries[i].key, count |-> entries[i].count]],
        short |-> [i \in 1..Len(short) |->
                      [key |-> short[i], count |-> Count(data, short[i])]],
        matched |-> SelectSeq(list, IsMatched)]

\* the report of BarcodeReconciler.jsx
LegacyReport(list, data) ==
    LET IsMissing(item) == Count(data, item) = 0
        IsMatched(item) == Count(data, item) = 1
        IsShort(item) == Count(data, item) > 1
        NotExpected(e) == ~Includes(list, e.key)
        short == SelectSeq(list, IsShort)
        entries == SelectSeq(data, NotExpected)
    IN [totalExpected |-> Len(list),
        totalScanned |-> TotalScanned(data),
        missing |-> SelectSeq(list, IsMissing),
        excess |-> [i \in 1..Len(entries) |->
                      [number |-> entries[i].key, count |-> entries[i].count]],
        short |-> [i \in 1..Len(short) |->
                      [key |-> short[i], count |-> Count(data, short[i])]],
        matched |-> SelectSeq(list, IsMatched)]

\* the report the mounted component shows after its last render
report ==
    IF app = "part_000" THEN Report(masterList, scannedData)
    ELSE LegacyReport(masterList, scannedData)

(***************************************************************************)
(* Initial state: a freshly mounted component                              *)
(***************************************************************************)
Init ==
    /\ app \in {"part_000", "BarcodeReconciler"}
    /\ masterList = <<>>
    /\ scannedData = <<>>
    /\ pending = <<>>
    /\ parses = 0
    /\ isUsingCamera = FALSE
    /\ isManualEntry = FALSE
    /\ cameraList = <<>>
    /\ lastNumber = <<>>
    /\ result = "none"
    /\ uploads = 0
    /\ notice = NoNotice
    /\ resultsData = <<>>

(***************************************************************************)
(* Loading the master list                                                 *)
(***************************************************************************)
\* parseMasterList up to the call of Papa.parse: the parse is now in flight
StartParse ==
    /\ uploads < MaxUploads
    /\ parses' = parses + 1
    /\ uploads' = uploads + 1

\* handleFileUpload of part_000; the input is disabled and the zone's click
\* is ignored once masterList.length > 0
HandleFileUpload ==
    /\ app = "part_000"
    /\ Len(masterList) = 0
    /\ StartParse
    /\ UNCHANGED <<app, masterList, scannedData, pending, isUsingCamera,
                   isManualEntry, cameraList, lastNumber, result, notice,
                   resultsData>>

\* handleDrop of part_000 (onDrop of the upload zone)
HandleDrop ==
    /\ app = "part_000"
    /\ StartParse
    /\ UNCHANGED <<app, masterList, scannedData, pending, isUsingCamera,
                   isManualEntry, cameraList, lastNumber, result, notice,
                   resultsData>>

\* handleFileUpload of BarcodeReconciler.jsx; the input is disabled once
\* masterList.length > 0
LegacyHandleFileUpload ==
    /\ app = "BarcodeReconciler"
    /\ Len(masterList) = 0
    /\ StartParse
    /\ UNCHANGED <<app, masterList, scannedData, pending, isUsingCamera,
                   isManualEntry, cameraList, lastNumber, result, notice,
                   resultsData>>

\* a complete callback that ends in load: setMasterList, the alert, and the
\* render that setMasterList causes
Complete(load) ==
    /\ parses > 0
    /\ parses' = parses - 1
    /\ masterList' = load.list
    /\ notice' = Loaded(load.size)
    /\ scannedData' = Flush(scannedData, pending)
    /\ pending' = <<>>
    /\ UNCHANGED <<app, isUsingCamera, isManualEntry, cameraList, lastNumber,
                   result, uploads, resultsData>>

\* the complete callback of part_000
ParseComplete ==
    /\ app = "part_000"
    /\ \E load \in Loads : Complete(load)

\* the complete callback of BarcodeReconciler.jsx
LegacyParseComplete ==
    /\ app = "BarcodeReconciler"
    /\ \E load \in LegacyLoads : Complete(load)

\* an error callback that would keep the rows parsed before the failure
ParseErrorKeepsRows ==
    /\ parses > 0
    /\ parses' = parses - 1
    /\ notice' = ErrorNotice
    /\ \E load \in Loads \cup LegacyLoads : masterList' = load.list
    /\ UNCHANGED <<app, scannedData, pending, isUsingCamera, isManualEntry,
                   cameraList, lastNumber, result, uploads, resultsData>>

\* the error callback of either component: console.error and alert only
ParseError ==
    /\ parses > 0
    /\ parses' = parses - 1
    /\ notice' = ErrorNotice
    /\ UNCHANGED <<app, masterList, scannedData, pending, isUsingCamera,
                   isManualEntry, cameraList, lastNumber, result, uploads,
                   resultsData>>

(***************************************************************************)
(* Recording scans                                                         *)
(***************************************************************************)
\* room for one more scan within the bounds
CanScan == TotalScanned(scannedData) + Len(pending) < MaxScans

\* processNumber(number) called from a closure that holds list
CallProcessNumber(list, number) ==
    LET call == ProcessNumber(list, number)
    IN /\ lastNumber' = number
       /\ result' = call.ret
       /\ pending' = pending \o call.keys

\* handleScan of part_000 on Enter or Tab: the keyboard-wedge input
HandleScan(value) ==
    /\ app = "part_000"
    /\ ~isUsingCamera /\ ~isManualEntry
    /\ CanScan
    /\ CallProcessNumber(masterList, Trim(value))
    /\ UNCHANGED <<app, masterList, scannedData, parses, isUsingCamera,
                   isManualEntry, cameraList, uploads, notice, resultsData>>

\* handleManualSubmit of part_000: processNumber(manualNumber)
HandleManualSubmit(manualNumber) ==
    /\ app = "part_000"
    /\ ~isUsingCamera /\ isManualEntry
    /\ CanScan
    /\ CallProcessNumber(masterList, manualNumber)
    /\ UNCHANGED <<app, masterList, scannedData, parses, isUsingCamera,
                   isManualEntry, cameraList, uploads, notice, resultsData>>

\* onScanSuccess as registered with the scanner when the camera was started
OnScanSuccess(decodedText) ==
    /\ app = "part_000"
    /\ isUsingCamera
    /\ CanScan
    /\ CallProcessNumber(cameraList, decodedText)
    /\ UNCHANGED <<app, masterList, scannedData, parses, isUsingCamera,
                   isManualEntry, cameraList, uploads, notice, resultsData>>

\* handleScan of BarcodeReconciler.jsx on Enter or Tab
LegacyHandleScan(value) ==
    /\ app = "BarcodeReconciler"
    /\ CanScan
    /\ pending' = IF Trim(value) # EmptyStr THEN Append(pending, Trim(value))
                  ELSE pending
    /\ lastNumber' = Trim(value)
    /\ UNCHANGED <<app, masterList, scannedData, parses, isUsingCamera,
                   isManualEntry, cameraList, result, uploads, notice,
                   resultsData>>

\* React renders: the queued updaters are applied in order
Render ==
    /\ pending # <<>>
    /\ scannedData' = Flush(scannedData, pending)
    /\ pending' = <<>>
    /\ UNCHANGED <<app, masterList, parses, isUsingCamera, isManualEntry,
                   cameraList, lastNumber, result, uploads, notice,
                   resultsData>>

(***************************************************************************)
(* Input surfaces of part_000                                              *)
(***************************************************************************)
\* the camera button, and the effect keyed on isUsingCamera: starting the
\* camera registers the onScanSuccess of that render, stopping it clears the
\* scanner (the closure is then dropped)
ToggleCamera ==
    /\ app = "part_000"
    /\ isUsingCamera' = ~isUsingCamera
    /\ cameraList' = IF ~isUsingCamera THEN masterList ELSE <<>>
    /\ scannedData' = Flush(scannedData, pending)
    /\ pending' = <<>>
    /\ UNCHANGED <<app, masterList, parses, isManualEntry, lastNumber, result,
                   uploads, notice, resultsData>>

\* the manual entry button
ToggleManualEntry ==
    /\ app = "part_000"
    /\ isManualEntry' = ~isManualEntry
    /\ scannedData' = Flush(scannedData, pending)
    /\ pending' = <<>>
    /\ UNCHANGED <<app, masterList, parses, isUsingCamera, cameraList,
                   lastNumber, result, uploads, notice, resultsData>>

Scan == \E s \in ScanInputs : HandleScan(s)
ManualSubmit == \E s \in ScanInputs : HandleManualSubmit(s)
CameraScan == \E s \in ScanInputs : OnScanSuccess(s)
LegacyScan == \E s \in ScanInputs : LegacyHandleScan(s)

Next ==
    \/ HandleFileUpload
    \/ HandleDrop
    \/ LegacyHandleFileUpload
    \/ ParseComplete
    \/ LegacyParseComplete
    \/ ParseError
    \/ ToggleManualEntry
    \/ ToggleCamera
    \/ Scan
    \/ ManualSubmit
    \/ CameraScan
    \/ LegacyScan
    \/ Render

Spec == Init /\ [][Next]_vars

(***************************************************************************)
(* parseMasterList of part_000 on its own: one parse in flight on a fresh  *)
(* component, its rows kept in the state                                   *)
(***************************************************************************)
\* rows as in Rows, and two more: a field that holds a comma (a quoted CSV
\* field), and a row that differs from another one by padding only
BuildRows ==
    Rows \cup { << <<"A", ",", "B">> >>,
                << <<"A">>, <<"S", " ">> >> }

BuildFiles == UNION { [1..n -> BuildRows] : n \in 0..MaxRows }

\* the component after Papa.parse was called with its first file
BuildInit ==
    /\ app = "part_000"
    /\ masterList = <<>>
    /\ scannedData = <<>>
    /\ pending = <<>>
    /\ parses = 1
    /\ isUsingCamera = FALSE
    /\ isManualEntry = FALSE
    /\ cameraList = <<>>
    /\ lastNumber = <<>>
    /\ result = "none"
    /\ uploads = 1
    /\ notice = NoNotice
    /\ resultsData \in BuildFiles

\* the complete callback of part_000 on the rows of that parse
BuildComplete ==
    /\ app = "part_000"
    /\ Complete(Load(resultsData))

BuildNext == BuildComplete

SpecBuild == BuildInit /\ [][BuildNext]_vars

(***************************************************************************)
(* Vocabulary of the properties                                            *)
(***************************************************************************)
\* the tally once the queued updaters are applied
Tally == Flush(scannedData, pending)

KeysOf(data) == { data[i].key : i \in 1..Len(data) }

\* the step passes s, as typed or trimmed, to processNumber (a cheap test
\* that spares evaluating the handlers on the steps of other inputs)
Passes(s) == lastNumber' = s \/ lastNumber' = Trim(s)

\* record through a surface whose closure holds the current masterList
Record(s) == Passes(s) /\ (HandleScan(s) \/ HandleManualSubmit(s))

\* record through the camera, whose closure holds cameraList
RecordCamera(s) == Passes(s) /\ OnScanSuccess(s)

\* record through any input surface of part_000
RecordAny(s) == Record(s) \/ RecordCamera(s)

\* the item has a non-empty secondary identifier
HasSerial(item) == SerialNumber(item) # Undefined /\ Trim(SerialNumber(item)) # EmptyStr

\* the identifiers of an item, trimmed and upper-cased
Ids(item) ==
    {ToUpperCase(InstrumentNumber(item))}
        \cup (IF HasSerial(item) THEN {ToUpperCase(Trim(SerialNumber(item)))} ELSE {})

\* the earliest item of list one of whose identifiers is n
Earliest(list, n) ==
    CHOOSE j \in 1..Len(list) :
        n \in Ids(list[j]) /\ \A k \in 1..(j - 1) : n \notin Ids(list[k])

\* exactly the count under key grows, by one, from data to data2
OnlyCountOfGrows(data, data2, key) ==
    \A k \in KeysOf(data) \cup KeysOf(data2) \cup {key} :
        Count(data2, k) = Count(data, k) + (IF k = key THEN 1 ELSE 0)

RECURSIVE SumCounts(_, _)
SumCounts(data, keys) ==
    IF keys = {} THEN 0
    ELSE LET k == CHOOSE x \in keys : TRUE
         IN Count(data, k) + SumCounts(data, keys \ {k})

\* the short entry of an item, if any
ShortHas(r, item, n) == \E j \in 1..Len(r.short) : r.short[j] = [key |-> item, count |-> n]
ShortKeys(r) == [j \in 1..Len(r.short) |-> r.short[j].key]

(***************************************************************************)
(* C1: in part_000, once the queued updates are rendered, report puts each *)
(* catalog item in missing, matched or short according to the number of    *)
(* scans tallied for it (under its instrument number): 0, 1, or 2 and more *)
(* with that count.                                                        *)
(***************************************************************************)
C1_ReportClassifiesByCount ==
    (app = "part_000" /\ pending = <<>>) =>
        \A i \in 1..Len(masterList) :
            LET item == masterList[i]
                n == Count(scannedData, InstrumentNumber(item))
            IN /\ n = 0 => Includes(report.missing, item)
               /\ n = 1 => Includes(report.matched, item)
               /\ n >= 2 => ShortHas(report, item, n)

(***************************************************************************)
(* C2 as stated: for every catalog item with primaryId P and a non-empty   *)
(* secondaryId S, a record call with a string that equals P or S after     *)
(* trimming and upper-casing returns true and adds 1 to the count keyed by *)
(* P and to no other count.                                                *)
(***************************************************************************)
C2_EitherIdentifierCountsItsItem ==
    [][\A s \in ScanInputs : \A i \in 1..Len(masterList) :
        (Record(s) /\ HasSerial(masterList[i]) /\ Normalize(s) \in Ids(masterList[i]))
            => /\ result' = "true"
               /\ OnlyCountOfGrows(Tally, Tally', InstrumentNumber(masterList[i]))]_vars

\* a record call against list with a string naming (by either identifier)
\* an item of list that has a secondaryId counts the earliest item it names
CountsEarliest(list, s) ==
    LET n == Normalize(s)
    IN (\E i \in 1..Len(list) : HasSerial(list[i]) /\ n \in Ids(list[i]))
          => /\ result' = "true"
             /\ OnlyCountOfGrows(Tally, Tally',
                   InstrumentNumber(list[Earliest(list, n)]))

(***************************************************************************)
(* C2 amended: for every item with primaryId P and a non-empty secondaryId *)
(* S of the catalog a record call resolves against, a string that equals P *)
(* or S after trimming and upper-casing makes the call return true and add *)
(* 1 to exactly one count: the one keyed by the primaryId of the earliest  *)
(* catalog item that has the same normalized string as an identifier (P    *)
(* itself when no earlier item shares it).                                 *)
(***************************************************************************)
C2_EitherIdentifierCountsEarliestItem ==
    [][\A s \in ScanInputs :
        /\ Record(s) => CountsEarliest(masterList, s)
        /\ RecordCamera(s) => CountsEarliest(cameraList, s)]_vars

\* a scan of the lower-case secondaryId of an item was counted for that item
C2_Witness ==
    /\ app = "part_000"
    /\ result = "true"
    /\ lastNumber = <<"s">>
    /\ \E i \in 1..Len(masterList) :
          /\ HasSerial(masterList[i])
          /\ Earliest(masterList, Normalize(lastNumber)) = i
          /\ InstrumentNumber(masterList[i]) = <<"A">>
          /\ Count(Tally, <<"A">>) >= 1

(***************************************************************************)
(* C3: a record call with a non-empty identifier that resolves to no       *)
(* catalog item adds 1 to the tally entry keyed by the trimmed identifier, *)
(* in processNumber of part_000, which also returns false (unmatched), and *)
(* in handleScan of BarcodeReconciler.jsx.                                 *)
(***************************************************************************)
C3_UnresolvedScanIsRecorded ==
    [][\A s \in ScanInputs :
        /\ (Record(s) /\ Trim(s) # EmptyStr /\ Find(masterList, Normalize(s)) = 0)
              => /\ result' = "false"
                 /\ Count(Tally', Trim(s)) = Count(Tally, Trim(s)) + 1
        /\ (Passes(s) /\ LegacyHandleScan(s) /\ Trim(s) # EmptyStr
                /\ ~Includes(masterList, Trim(s)))
              => Count(Tally', Trim(s)) = Count(Tally, Trim(s)) + 1]_vars

(***************************************************************************)
(* C4: in part_000 every entry of report.excess is an identifier that      *)
(* resolves to no catalog item.                                            *)
(***************************************************************************)
C4_ExcessHasNoCatalogMatch ==
    (app = "part_000" /\ pending = <<>>) =>
        \A j \in 1..Len(report.excess) :
            Find(masterList, Normalize(report.excess[j].number)) = 0

(***************************************************************************)
(* C5: in both components the report's missing, matched and short hold     *)
(* every catalog item exactly once between them, and their sizes add up to *)
(* totalExpected.                                                          *)
(***************************************************************************)
C5_BucketsPartitionCatalog ==
    LET r == report
        Buckets(item) ==
            (IF Includes(r.missing, item) THEN {"missing"} ELSE {})
                \cup (IF Includes(r.matched, item) THEN {"matched"} ELSE {})
                \cup (IF Includes(ShortKeys(r), item) THEN {"short"} ELSE {})
    IN /\ Len(r.missing) + Len(r.matched) + Len(r.short) = r.totalExpected
       /\ r.totalExpected = Len(masterList)
       /\ \A i \in 1..Len(masterList) : Cardinality(Buckets(masterList[i])) = 1
       /\ \A j \in 1..Len(r.missing) : Includes(masterList, r.missing[j])
       /\ \A j \in 1..Len(r.matched) : Includes(masterList, r.matched[j])
       /\ \A j \in 1..Len(r.short) : Includes(masterList, r.short[j].key)

\* a report with an item scanned twice beside an item never scanned
C5_Witness ==
    /\ Len(report.missing) > 0
    /\ Len(report.short) > 0
    /\ report.totalExpected >= 2

(***************************************************************************)
(* C6: in both components report.totalScanned is the sum, over the keys of *)
(* the tally, of their counts, expected and unexpected keys alike.         *)
(***************************************************************************)
C6_TotalScannedIsSumOfCounts ==
    report.totalScanned = SumCounts(scannedData, KeysOf(scannedData))

\* a tally with an expected key and an unexpected key beside it
C6_Witness ==
    /\ \E i \in 1..Len(scannedData) : Includes(masterList, scannedData[i].key)
    /\ Len(report.excess) > 0
    /\ report.totalScanned = 2

(***************************************************************************)
(* C7: a record call with an empty or whitespace-only string, through any  *)
(* input surface of part_000, does not return true and leaves the tally as *)
(* it was.                                                                 *)
(***************************************************************************)
C7_BlankInputIsNoOp ==
    [][\A s \in ScanInputs :
        (RecordAny(s) /\ Trim(s) = EmptyStr)
            => (result' # "true" /\ Tally' = Tally)]_vars

(***************************************************************************)
(* C8: once the catalog holds an item, no step changes it.                 *)
(***************************************************************************)
C8_CatalogBuiltOnce == [][Len(masterList) > 0 => masterList' = masterList]_vars

(***************************************************************************)
(* C9: every step that installs or replaces the catalog leaves an empty    *)
(* tally.                                                                  *)
(***************************************************************************)
C9_CatalogAndTallyReplacedTogether ==
    [][masterList' # masterList => Tally' = <<>>]_vars

(***************************************************************************)
(* C10: no two entries of a catalog built by part_000 have the same        *)
(* primaryId.                                                              *)
(***************************************************************************)
C10_PrimaryIdsUnique ==
    app = "part_000" =>
        \A i, j \in 1..Len(masterList) :
            i # j => InstrumentNumber(masterList[i]) # InstrumentNumber(masterList[j])

(***************************************************************************)
(* C11: once parseMasterList of part_000 has completed on a sequence of    *)
(* rows, the catalog holds, in order and once each, the pairs (first field *)
(* trimmed, second field trimmed or none) of the rows that have a field    *)
(* and whose first field is not blank, and the count it reported is the    *)
(* length of the catalog and the report's totalExpected.                   *)
(***************************************************************************)
\* a row the build keeps
Usable(row) == Len(row) >= 1 /\ Trim(row[1]) # EmptyStr

\* the pair a kept row stands for (no secondaryId: the empty string)
PairOf(row) ==
    <<Trim(row[1]), IF Len(row) >= 2 THEN Trim(row[2]) ELSE EmptyStr>>

\* the pairs of the kept rows, collapsed
PairsOf(rows) ==
    LET kept == SelectSeq(rows, Usable)
    IN Dedupe([i \in 1..Len(kept) |-> PairOf(kept[i])])

\* a stored item as processNumber takes it apart
Entry(item) ==
    <<InstrumentNumber(item),
      IF SerialNumber(item) = Undefined THEN EmptyStr
      ELSE Trim(SerialNumber(item))>>

Entries(list) == [i \in 1..Len(list) |-> Entry(list[i])]

C11_CatalogBuild ==
    (parses = 0) =>
        /\ Entries(masterList) = PairsOf(resultsData)
        /\ notice = Loaded(Len(masterList))
        /\ report.totalExpected = Len(masterList)

(***************************************************************************)
(* C12: a parse that ends in the error callback (its alert is the only     *)
(* thing surfaced) leaves the catalog as it was, so an unset catalog stays *)
(* empty, and leaves the tally as it was, in both components.              *)
(***************************************************************************)
\* a parse ends and the error alert is what it shows
ErrorSurfaced == parses' = parses - 1 /\ notice' = ErrorNotice

C12_ErrorLeavesCatalogAndTally ==
    [][ErrorSurfaced =>
        /\ masterList' = masterList
        /\ (Len(masterList) = 0 => Len(masterList') = 0)
        /\ scannedData' = scannedData /\ pending' = pending
        /\ result' = result]_vars

\* a failed load on a component whose catalog is unset and whose tally holds
\* a count
C12_Witness ==
    /\ notice = ErrorNotice
    /\ Len(masterList) = 0
    /\ Len(scannedData) > 0

(***************************************************************************)
(* C13: when the normalized identifier of a record call of part_000 is an  *)
(* identifier (primaryId or non-empty secondaryId) of two or more items of *)
(* the catalog the call resolves against, the call returns true, counts    *)
(* under the primaryId of the earliest of those items, and leaves the      *)
(* count of every later one of them with another primaryId as it was.      *)
(***************************************************************************)
\* the items of list that have n as an identifier
Tied(list, n) == { i \in 1..Len(list) : n \in Ids(list[i]) }

TieGoesToEarliest(list, s) ==
    LET tied == Tied(list, Normalize(s))
    IN Cardinality(tied) >= 2 =>
          LET first == CHOOSE i \in tied : \A j \in tied : i <= j
              key == InstrumentNumber(list[first])
          IN /\ result' = "true"
             /\ pending' = Append(pending, key)
             /\ Count(Tally', key) = Count(Tally, key) + 1
             /\ \A j \in tied :
                   InstrumentNumber(list[j]) # key =>
                      Count(Tally', InstrumentNumber(list[j]))
                         = Count(Tally, InstrumentNumber(list[j]))

C13_TieGoesToEarliestItem ==
    [][\A s \in ScanInputs :
        /\ Record(s) => TieGoesToEarliest(masterList, s)
        /\ RecordCamera(s) => TieGoesToEarliest(cameraList, s)]_vars

\* the catalog lists item S before an item A with serial number S; the scan
\* of S was counted for the first and not for the second
C13_Witness ==
    /\ app = "part_000"
    /\ ~isUsingCamera
    /\ result = "true"
    /\ Normalize(lastNumber) = <<"S">>
    /\ Tied(masterList, <<"S">>) = {1, 2}
    /\ InstrumentNumber(masterList[1]) = <<"S">>
    /\ InstrumentNumber(masterList[2]) = <<"A">>
    /\ Count(Tally, <<"S">>) = 1
    /\ Count(Tally, <<"A">>) = 0

(***************************************************************************)
(* C14: in both components no step lowers a count of the tally or drops an *)
(* entry, whether the updates are rendered or still queued; a record call  *)
(* that resolves (any input that is not blank, in BarcodeReconciler.jsx)   *)
(* adds 1 to exactly one count, also when earlier calls are still queued;  *)
(* every other step leaves the sum of the counts as it was.                *)
(***************************************************************************)
\* the step is a record call that resolves (the first conjunct, true of
\* every step of a scan handler, spares evaluating them on other steps)
RecordResolves ==
    /\ UNCHANGED <<masterList, scannedData, parses, isUsingCamera,
                   isManualEntry>>
    /\ \E s \in ScanInputs :
          /\ Passes(s)
          /\ \/ RecordAny(s) /\ result' = "true"
             \/ LegacyHandleScan(s) /\ Trim(s) # EmptyStr

\* every entry of data is still in data2, in its place (an object keeps its
\* keys in insertion order), with a count that is not lower
NoCountDrops(data, data2) ==
    /\ Len(data2) >= Len(data)
    /\ \A i \in 1..Len(data) :
          data2[i].key = data[i].key /\ data2[i].count >= data[i].count

C14_NoLostUpdate ==
    [][LET before == Tally
           after == Tally'
       IN /\ NoCountDrops(scannedData, scannedData')
          /\ NoCountDrops(before, after)
          /\ IF RecordResolves
             THEN /\ TotalScanned(after) = TotalScanned(before) + 1
                  /\ Len(pending') = Len(pending) + 1
                  /\ OnlyCountOfGrows(before, after, pending'[Len(pending')])
             ELSE TotalScanned(after) = TotalScanned(before)]_vars

\* two calls of part_000 queued before a render, for two different items:
\* both are in the tally
C14_Witness ==
    /\ app = "part_000"
    /\ Len(pending) = 2
    /\ pending[1] # pending[2]
    /\ Count(Tally, pending[1]) = 1
    /\ Count(Tally, pending[2]) = 1
    /\ TotalScanned(Tally) = 2

(***************************************************************************)
(* C15: every record call of part_000, through the keyboard input, the     *)
(* manual form or the camera, returns and counts what processNumber gives  *)
(* against the masterList of the moment the scan arrives.                  *)
(***************************************************************************)
C15_ScanResolvesAgainstCurrentCatalog ==
    [][\A s \in ScanInputs :
        RecordAny(s) =>
            LET call == ProcessNumber(masterList, lastNumber')
            IN /\ result' = call.ret
               /\ pending' = pending \o call.keys]_vars

====
